---- MODULE Spec2Model ----
(***************************************************************************)
(* Client-side rate limiting and lockout of security-logger.js:            *)
(* the RateLimiter and LockoutManager classes over localStorage, and the   *)
(* handlers that gate the overlay-open and document-click actions.         *)
(*                                                                         *)
(* Time is the value Date.now() returns, in milliseconds.  A handler runs  *)
(* in one turn of the event loop; every Date.now() it reads is modelled as *)
(* the same instant.  The clock never goes backwards.                      *)
(* A stored value is the JSON text of a list of integers or of a flat      *)
(* record, which JSON.parse(JSON.stringify(v)) gives back unchanged; the   *)
(* store keeps the value wrapped in a "json" record, and null for a key    *)
(* that is not there.  In this part storage works (no access throws).      *)
(* The telemetry that logSecurity() queues on a denial or a lockout is not  *)
(* part of this state: it does not touch the store or what is returned.    *)
(*                                                                         *)
(* The second part is the delivery pipeline of the same file: the event    *)
(* queue, the flush timer, the sends in flight and the unload beacon       *)
(* (specification SpecLog).  An event is stood for by its eventNumber.     *)
(* A timer fires when the clock reaches its deadline.  Specification       *)
(* SpecRetry is the same pipeline with the sends of each event counted.    *)
(*                                                                         *)
(* The third part runs the same classes and handlers on a storage whose    *)
(* accesses can throw (specification SpecStore), and the fourth part is    *)
(* the collector of logging-service.js answering requests (specification   *)
(* SpecWorker).                                                            *)
(***************************************************************************)
EXTENDS Integers, Sequences, FiniteSets, TLC

(***************************************************************************)
(* Bounds of the model.                                                    *)
(***************************************************************************)
\* attempt caps of the two limiters (RATE_LIMIT_CONFIG sets 20 and 50; the
\* RateLimiter class takes the cap as a constructor argument)
maxOverlayOpens == 2
maxDocumentClicks == 2
\* longest violation ledger the model lets the handlers build
MaxViolations == 6

\* the instants at which the clock is read
TimePoints == {0, 100, 60000, 300000}

\* the instants at which the clock is read while the storage can fail
StoreTimes == {0, 300000}

\* the number of event ids the collector makes in the model
MaxEventIds == 2
\* the number of alerts the collector sends in the model
MaxAlerts == 1
\* the longest batch the model posts to the collector
MaxBatch == 2

\* size of a batch that triggers a flush (LOGGING_CONFIG.batchSize is 10)
batchSize == 3
\* batch size from which a failed batch is dropped (the code's literal is 100)
requeueCeiling == 4
\* number of events the model creates
MaxEvents == 5
\* the clock of the pipeline runs freely up to here
MaxLogTime == 45000
\* the amounts by which the clock of the pipeline advances
LogSteps == {15000}

(***************************************************************************)
(* Program constants.                                                      *)
(***************************************************************************)
overlayWindow == 60000
documentWindow == 60000
maxFailedAttempts == 5
lockoutDuration == 300000
\* the literal of recordViolation's filter
violationWindow == 300000
\* the divisor of Math.ceil(x / 1000)
MsPerSecond == 1000

flushInterval == 30000
\* LOGGING_CONFIG.enabled
loggingEnabled == TRUE
\* the empty timer handle (flushTimer = null)
NoTimer == 0

storagePrefix == "ratelimit_"

VARIABLES
  now,           \* Date.now()
  localStorage,  \* key -> stored value
  result,        \* what the last handler did: the values its calls returned
  lastCheck,     \* per limiter: the last isAllowed() return, its time and
                 \* the attempts it read
  calls,         \* per limiter: calls counted since its store was empty
  ledger,        \* violations counted since the ledger was empty
  eventQueue,    \* the events waiting to be sent
  flushTimer,    \* the timer handle, NoTimer when empty
  eventCounter,  \* the number of the last event created
  timers,        \* the timers the runtime holds pending: id and deadline
  inFlight,      \* the fetch calls not yet settled, each with its batch
  beacons,       \* the payloads handed to navigator.sendBeacon
  page,          \* "loaded" until the page is torn down
  delivered,     \* events of batches the collector accepted
  dropped,       \* events of failed batches that were not put back
  requeued,      \* events put back by a failure and not yet in a new batch
  firstUnflushed,\* time of the first enqueue since the last flush start, or -1
  logResult,     \* what the last step of the pipeline did
  sends,         \* per event: the batches flushEvents() sent it in, counted,
                 \* and the size of the last of them
  storage,       \* the condition of the browser's storage: its mode
  handled,       \* what the last handler did on a store that may throw
  request,       \* the last request the collector received
  response,      \* its answer, with what the collector did for it
  alerts,        \* the events handed to sendAlert
  eventIds       \* the number of event ids the collector has generated

rateVars == <<localStorage, result, lastCheck, calls, ledger>>
logVars == <<eventQueue, flushTimer, eventCounter, timers, inFlight, beacons,
             page, delivered, dropped, requeued, firstUnflushed, logResult,
             sends>>
storeVars == <<storage, handled>>
workerVars == <<request, response, alerts, eventIds>>
restVars == <<storeVars, workerVars>>
vars == <<now, rateVars, logVars, restVars>>

(***************************************************************************)
(* Values.                                                                 *)
(***************************************************************************)
Null == [kind |-> "null"]
Stored(v) == [kind |-> "json", val |-> v]
NoCall == [kind |-> "none"]
\* a bare JavaScript boolean
Bool(b) == [kind |-> "boolean", val |-> b]

\* rounding down where the code rounds up
Ceil_floor(x, d) == x \div d

\* Math.ceil(x / d) for integers x and d > 0
Ceil(x, d) == -((-x) \div d)

RECURSIVE MinOf(_)
\* Math.min(...s) of a non-empty sequence
MinOf(s) ==
  IF Len(s) = 1 THEN s[1]
  ELSE LET m == MinOf(Tail(s)) IN IF s[1] < m THEN s[1] ELSE m

(***************************************************************************)
(* class RateLimiter                                                       *)
(***************************************************************************)
\* every limiter storing its attempts under the bare prefix
RateLimiter_sharedKey(action, maxAttempts, windowMs) ==
  [action |-> action, maxAttempts |-> maxAttempts, windowMs |-> windowMs,
   storageKey |-> storagePrefix]

RateLimiter(action, maxAttempts, windowMs) ==
  [action |-> action, maxAttempts |-> maxAttempts, windowMs |-> windowMs,
   storageKey |-> storagePrefix \o action]

overlayLimiter == RateLimiter("overlay_open", maxOverlayOpens, overlayWindow)
documentLimiter == RateLimiter("document_click", maxDocumentClicks, documentWindow)
Limiters == {overlayLimiter, documentLimiter}
Actions == {"overlay_open", "document_click"}
LimiterOf(a) == CHOOSE l \in Limiters : l.action = a

lockoutKey == storagePrefix \o "lockout"
violationsKey == lockoutKey \o "_violations"
Keys == {overlayLimiter.storageKey, documentLimiter.storageKey,
         lockoutKey, violationsKey}

getAttempts(this, ls) ==
  IF ls[this.storageKey] = Null THEN <<>> ELSE ls[this.storageKey].val

saveAttempts(this, ls, attempts) ==
  [ls EXCEPT ![this.storageKey] = Stored(attempts)]

\* a fixed window: every attempt is forgotten once the oldest one is out
validAttemptsOf_fixedWindow(this, attempts, t) ==
  IF attempts # <<>> /\ t - MinOf(attempts) >= this.windowMs THEN <<>> ELSE attempts

\* the attempts of the sliding window at time t
validAttemptsOf(this, attempts, t) ==
  SelectSeq(attempts, LAMBDA timestamp : t - timestamp < this.windowMs)

\* the cap compared with > where the code has >=
limitExceeded_gt(this, validAttempts) == Len(validAttempts) > this.maxAttempts

limitExceeded(this, validAttempts) == Len(validAttempts) >= this.maxAttempts

\* the time already elapsed where the code has the time still to wait
timeToWaitOf_elapsed(this, validAttempts, t) == t - MinOf(validAttempts)

\* the milliseconds until the oldest attempt of the window leaves it
timeToWaitOf(this, validAttempts, t) ==
  LET oldestAttempt == MinOf(validAttempts)
  IN this.windowMs - (t - oldestAttempt)

\* isAllowed() at time t: the value returned and the store afterwards
isAllowed(this, ls, t) ==
  LET attempts == getAttempts(this, ls)
      validAttempts == validAttemptsOf(this, attempts, t)
  IN IF limitExceeded(this, validAttempts)
     THEN LET timeToWait == timeToWaitOf(this, validAttempts, t)
          IN [ret |-> [kind |-> "object", allowed |-> FALSE,
                       timeToWait |-> Ceil(timeToWait, MsPerSecond)],
              ls |-> ls]
     ELSE LET pushed == Append(validAttempts, t)
          IN [ret |-> [kind |-> "object", allowed |-> TRUE,
                       remainingAttempts |-> this.maxAttempts - Len(pushed)],
              ls |-> saveAttempts(this, ls, pushed)]

resetLimiter(this, ls) == [ls EXCEPT ![this.storageKey] = Null]

(***************************************************************************)
(* class LockoutManager                                                    *)
(***************************************************************************)
getLockout(ls) == IF ls[lockoutKey] = Null THEN Null ELSE ls[lockoutKey].val

getViolations(ls) == IF ls[violationsKey] = Null THEN <<>> ELSE ls[violationsKey].val

saveViolations(ls, violations) == [ls EXCEPT ![violationsKey] = Stored(violations)]

\* only the lockout record removed, the violation history left
clearLockout_keepViolations(ls) == [ls EXCEPT ![lockoutKey] = Null]

clearLockout(ls) == [ls EXCEPT ![lockoutKey] = Null, ![violationsKey] = Null]

isLockedOut(ls, t) ==
  LET lockout == getLockout(ls)
  IN IF lockout = Null
     THEN [ret |-> Bool(FALSE), ls |-> ls]
     ELSE IF t < lockout.until
          THEN [ret |-> [kind |-> "object", locked |-> TRUE,
                         timeRemaining |-> Ceil(lockout.until - t, MsPerSecond),
                         reason |-> lockout.reason],
                ls |-> ls]
          ELSE [ret |-> [kind |-> "object", locked |-> FALSE],
                ls |-> clearLockout(ls)]

\* the duration stored as the end of the lockout, the current time not added
lockout_noNow(ls, t, reason) ==
  [ls EXCEPT ![lockoutKey] =
     Stored([until |-> lockoutDuration, reason |-> reason, timestamp |-> t])]

lockout(ls, t, reason) ==
  [ls EXCEPT ![lockoutKey] =
     Stored([until |-> t + lockoutDuration, reason |-> reason, timestamp |-> t])]

recentViolationsOf(violations, t) ==
  SelectSeq(violations, LAMBDA v : t - v.timestamp < violationWindow)

\* the threshold compared with > where the code has >=
thresholdReached_gt(recentViolations) == Len(recentViolations) > maxFailedAttempts

thresholdReached(recentViolations) == Len(recentViolations) >= maxFailedAttempts

recordViolation(ls, t, reason) ==
  LET violations == Append(getViolations(ls), [timestamp |-> t, reason |-> reason])
      recentViolations == recentViolationsOf(violations, t)
      saved == saveViolations(ls, recentViolations)
  IN IF thresholdReached(recentViolations)
     THEN [ret |-> Bool(TRUE), ls |-> lockout(saved, t, reason)]
     ELSE [ret |-> Bool(FALSE), ls |-> saved]

\* the value of `x.locked` in a condition: undefined (falsy) on a boolean
LockedField(r) == r.kind = "object" /\ r.locked

(***************************************************************************)
(* Handlers                                                                *)
(***************************************************************************)
overlayReason == "Rate limit exceeded for overlay opens"
documentReason == "Rate limit exceeded for document clicks"

\* openOverlay() run at time t on store ls
openOverlay(ls, t) ==
  LET lk == isLockedOut(ls, t)
  IN IF LockedField(lk.ret)
     THEN [op |-> "openOverlay", lockout |-> lk.ret, rateCheck |-> NoCall,
           shouldLockout |-> NoCall, proceeded |-> FALSE, ls |-> lk.ls]
     ELSE LET rc == isAllowed(overlayLimiter, lk.ls, t)
          IN IF ~rc.ret.allowed
             THEN LET rv == recordViolation(rc.ls, t, overlayReason)
                  IN [op |-> "openOverlay", lockout |-> lk.ret, rateCheck |-> rc.ret,
                      shouldLockout |-> rv.ret, proceeded |-> FALSE, ls |-> rv.ls]
             ELSE [op |-> "openOverlay", lockout |-> lk.ret, rateCheck |-> rc.ret,
                   shouldLockout |-> NoCall, proceeded |-> TRUE, ls |-> rc.ls]

\* the click listener of addRateLimitToDocumentClicks, on a document button
documentClick(ls, t) ==
  LET rc == isAllowed(documentLimiter, ls, t)
  IN IF ~rc.ret.allowed
     THEN LET rv == recordViolation(rc.ls, t, documentReason)
          IN [op |-> "documentClick", lockout |-> NoCall, rateCheck |-> rc.ret,
              shouldLockout |-> rv.ret, proceeded |-> FALSE, ls |-> rv.ls]
     ELSE [op |-> "documentClick", lockout |-> NoCall, rateCheck |-> rc.ret,
           shouldLockout |-> NoCall, proceeded |-> TRUE, ls |-> rc.ls]

\* showRateLimitStatus() and the load listener: they only ask isLockedOut()
showRateLimitStatus(ls, t) ==
  LET lk == isLockedOut(ls, t)
  IN [op |-> "showRateLimitStatus", lockout |-> lk.ret, rateCheck |-> NoCall,
      shouldLockout |-> NoCall, proceeded |-> FALSE, ls |-> lk.ls]

resetRateLimits(ls, confirmed) ==
  IF confirmed
  THEN clearLockout(resetLimiter(documentLimiter, resetLimiter(overlayLimiter, ls)))
  ELSE ls

(***************************************************************************)
(* Bookkeeping of what was observed (not program state)                    *)
(***************************************************************************)
NoCalls == [first |-> -1, n |-> 0, allowed |-> 0]
NoLedger == [first |-> -1, n |-> 0]

\* count an isAllowed() call on limiter a at time t; the count is kept while
\* all calls since the empty store lie within a span shorter than windowMs
CountCall(c, this, ret, t) ==
  IF c.first = -2 THEN c
  ELSE IF c.first = -1
       THEN [first |-> t, n |-> 1, allowed |-> IF ret.allowed THEN 1 ELSE 0]
       ELSE IF t - c.first < this.windowMs
            THEN [first |-> c.first, n |-> c.n + 1,
                  allowed |-> c.allowed + (IF ret.allowed THEN 1 ELSE 0)]
            ELSE [first |-> -2, n |-> 0, allowed |-> 0]

CountViolation(g, t) ==
  IF g.first = -2 THEN g
  ELSE IF g.first = -1 THEN [first |-> t, n |-> 1]
       ELSE IF t - g.first < violationWindow
            THEN [first |-> g.first, n |-> g.n + 1]
            ELSE [first |-> -2, n |-> 0]

\* the bookkeeping after a handler outcome o at time t
Observe(o, a, t) ==
  /\ result' = [op |-> o.op, lockout |-> o.lockout, rateCheck |-> o.rateCheck,
                shouldLockout |-> o.shouldLockout, proceeded |-> o.proceeded]
  /\ lastCheck' = IF o.rateCheck = NoCall THEN lastCheck
                  ELSE [lastCheck EXCEPT ![a] =
                          [ret |-> o.rateCheck, at |-> t,
                           before |-> getAttempts(LimiterOf(a), localStorage)]]
  /\ calls' = IF o.rateCheck = NoCall THEN calls
              ELSE [calls EXCEPT ![a] = CountCall(@, LimiterOf(a), o.rateCheck, t)]
  /\ ledger' = IF o.ls[violationsKey] = Null THEN NoLedger
               ELSE IF o.shouldLockout = NoCall THEN ledger
               ELSE CountViolation(ledger, t)

(***************************************************************************)
(* Event queue and delivery pipeline                                       *)
(***************************************************************************)
\* the module state the functions work on
Pipeline ==
  [eventQueue |-> eventQueue, flushTimer |-> flushTimer,
   eventCounter |-> eventCounter, timers |-> timers, inFlight |-> inFlight]

RECURSIVE FreshId(_, _)
\* the handle setTimeout returns: one that no pending timer has
FreshId(ids, i) == IF i \in ids THEN FreshId(ids, i + 1) ELSE i

Elems(q) == {q[i] : i \in 1..Len(q)}

\* a second timer created while one is pending
scheduleFlush_noGuard(p, t) ==
  LET id == FreshId({x.id : x \in p.timers}, 1)
  IN [p EXCEPT !.flushTimer = id,
               !.timers = @ \cup {[id |-> id, due |-> t + flushInterval]}]

scheduleFlush(p, t) ==
  IF p.flushTimer # NoTimer THEN p
  ELSE LET id == FreshId({x.id : x \in p.timers}, 1)
       IN [p EXCEPT !.flushTimer = id,
                    !.timers = @ \cup {[id |-> id, due |-> t + flushInterval]}]

\* the handle emptied, the timer itself not cancelled
cancelTimer_handleOnly(p) == [p EXCEPT !.flushTimer = NoTimer]

\* if (flushTimer) { clearTimeout(flushTimer); flushTimer = null; }
cancelTimer(p) ==
  IF p.flushTimer # NoTimer
  THEN [p EXCEPT !.timers = {x \in @ : x.id # p.flushTimer}, !.flushTimer = NoTimer]
  ELSE p

\* the queue left as it is when the batch is taken
snapshotAndClear_keepQueue(p) == [eventsToSend |-> p.eventQueue, p |-> p]

\* const eventsToSend = [...eventQueue]; eventQueue = [];
snapshotAndClear(p) ==
  [eventsToSend |-> p.eventQueue, p |-> [p EXCEPT !.eventQueue = <<>>]]

\* flushEvents() up to its await: the fetch is started with the batch;
\* awaited tells whether logSecurityEventToServer waits for it
flushEvents(p, awaited) ==
  IF Len(p.eventQueue) = 0 THEN p
  ELSE LET snap == snapshotAndClear(p)
           p2 == cancelTimer(snap.p)
       IN [p2 EXCEPT !.inFlight =
             @ \cup {[events |-> snap.eventsToSend, awaited |-> awaited]}]

\* the batch size compared with > where the code has >=
sizeReached_gt(queue) == Len(queue) > batchSize

sizeReached(queue) == Len(queue) >= batchSize

\* the counter read before it is incremented (eventCounter++)
logSecurityEventToServer_postIncrement(p, t) ==
  IF ~loggingEnabled THEN p
  ELSE LET event == p.eventCounter
           p1 == [p EXCEPT !.eventCounter = event + 1,
                           !.eventQueue = Append(@, event)]
       IN IF sizeReached(p1.eventQueue)
          THEN flushEvents(p1, TRUE)
          ELSE scheduleFlush(p1, t)

logSecurityEventToServer(p, t) ==
  IF ~loggingEnabled THEN p
  ELSE LET event == p.eventCounter + 1
           p1 == [p EXCEPT !.eventCounter = event,
                           !.eventQueue = Append(@, event)]
       IN IF sizeReached(p1.eventQueue)
          THEN flushEvents(p1, TRUE)
          ELSE scheduleFlush(p1, t)

FetchOutcomes == {"ok", "notOk", "throw"}

\* every failed batch put back, whatever its size
belowCeiling_always(eventsToSend) == TRUE

belowCeiling(eventsToSend) == Len(eventsToSend) < requeueCeiling

\* the failed events put at the back of the queue
unshift_push(queue, eventsToSend) == queue \o eventsToSend

\* eventQueue.unshift(...eventsToSend)
unshift(queue, eventsToSend) == eventsToSend \o queue

\* the failed batch put back and sent again at once
flushResume_retryNow(p, b, outcome) ==
  LET p1 == [p EXCEPT !.inFlight = @ \ {b}]
  IN IF outcome = "ok" THEN p1
     ELSE IF belowCeiling(b.events)
          THEN flushEvents([p1 EXCEPT !.eventQueue = unshift(@, b.events)], FALSE)
          ELSE p1

\* flushEvents() from the point where its fetch settles
flushResume(p, b, outcome) ==
  LET p1 == [p EXCEPT !.inFlight = @ \ {b}]
  IN IF outcome = "ok" THEN p1
     ELSE IF belowCeiling(b.events)
          THEN [p1 EXCEPT !.eventQueue = unshift(@, b.events)]
          ELSE p1

\* no catch around the fetch: a thrown error leaves the function
settleOf_noCatch(outcome) == IF outcome = "throw" THEN "rejected" ELSE "fulfilled"

\* how the promise of flushEvents() settles: the try/catch takes the error
settleOf(outcome) == "fulfilled"

\* a beacon sent whether or not there are events
beaconOf_noGuard(queue, t) == <<[events |-> queue, batchId |-> t]>>

\* the beforeunload listener: what it hands to sendBeacon
beaconOf(queue, t) ==
  IF Len(queue) > 0 THEN <<[events |-> queue, batchId |-> t]>> ELSE <<>>

\* no event has been in a batch yet
NoSends == [e \in 1..MaxEvents |-> [n |-> 0, size |-> 0]]

NoLogResult ==
  [op |-> "none", batch |-> <<>>, cancelled |-> FALSE, outcome |-> "none",
   before |-> <<>>, settled |-> {}]

LogInit ==
  /\ eventQueue = <<>>
  /\ flushTimer = NoTimer
  /\ eventCounter = 0
  /\ timers = {}
  /\ inFlight = {}
  /\ beacons = <<>>
  /\ page = "loaded"
  /\ delivered = {}
  /\ dropped = {}
  /\ requeued = {}
  /\ firstUnflushed = -1
  /\ logResult = NoLogResult
  /\ sends = NoSends

(***************************************************************************)
(* The same classes on a store whose accesses can throw                    *)
(*                                                                         *)
(* storage is "ok", "full" (setItem throws: the quota is used up) or       *)
(* "denied" (every access to localStorage throws).  A key can also hold    *)
(* text that JSON.parse rejects.  Each operation gives the value returned, *)
(* the store afterwards, whether an exception left it, and the accesses    *)
(* to localStorage it made (acc).                                          *)
(***************************************************************************)
StorageModes == {"ok", "full", "denied"}
\* a stored text that is not JSON
Garbage == [kind |-> "text"]
Exception == [kind |-> "exception"]

Access(fn, key, threw) == [fn |-> fn, key |-> key, threw |-> threw]

\* try { stored = getItem(key); return stored ? JSON.parse(stored) : fallback }
\* catch { return fallback }
readX(st, key, fallback) ==
  IF st.mode = "denied" \/ st.ls[key] = Garbage
  THEN [val |-> fallback, acc |-> <<Access("getItem", key, TRUE)>>]
  ELSE [val |-> IF st.ls[key] = Null THEN fallback ELSE st.ls[key].val,
        acc |-> <<Access("getItem", key, FALSE)>>]

\* localStorage.setItem(key, JSON.stringify(v))
setItemX(st, key, v) ==
  IF st.mode \in {"full", "denied"}
  THEN [ls |-> st.ls, threw |-> TRUE, acc |-> <<Access("setItem", key, TRUE)>>]
  ELSE [ls |-> [st.ls EXCEPT ![key] = Stored(v)], threw |-> FALSE,
        acc |-> <<Access("setItem", key, FALSE)>>]

\* localStorage.removeItem(key)
removeItemX(st, key) ==
  IF st.mode = "denied"
  THEN [ls |-> st.ls, threw |-> TRUE, acc |-> <<Access("removeItem", key, TRUE)>>]
  ELSE [ls |-> [st.ls EXCEPT ![key] = Null], threw |-> FALSE,
        acc |-> <<Access("removeItem", key, FALSE)>>]

getAttemptsX(this, st) == readX(st, this.storageKey, <<>>)

\* the write without its try/catch
saveAttemptsX_noCatch(this, st, attempts) == setItemX(st, this.storageKey, attempts)

\* setItem inside try/catch: a failure is only warned about
saveAttemptsX(this, st, attempts) ==
  [setItemX(st, this.storageKey, attempts) EXCEPT !.threw = FALSE]

\* remainingAttempts counted before the attempt is pushed
remainingOf_beforePush(this, validAttempts, pushed) ==
  this.maxAttempts - Len(validAttempts)

\* this.maxAttempts - validAttempts.length, read after the push
remainingOf(this, validAttempts, pushed) == this.maxAttempts - Len(pushed)

\* the denial that also writes the pruned attempts back
deniedX_save(this, st, validAttempts) == saveAttemptsX(this, st, validAttempts)

\* the denial: it returns without a write
deniedX(this, st, validAttempts) == [ls |-> st.ls, threw |-> FALSE, acc |-> <<>>]

\* the denied call stored as an attempt as well
isAllowedX_countsDenied(this, st, t) ==
  LET attempts == getAttemptsX(this, st)
      validAttempts == validAttemptsOf(this, attempts.val, t)
      pushed == Append(validAttempts, t)
      w == saveAttemptsX(this, st, pushed)
  IN IF limitExceeded(this, validAttempts)
     THEN [ret |-> [kind |-> "object", allowed |-> FALSE,
                    timeToWait |->
                      Ceil(timeToWaitOf(this, validAttempts, t), MsPerSecond)],
           ls |-> w.ls, threw |-> FALSE, acc |-> attempts.acc \o w.acc]
     ELSE [ret |-> [kind |-> "object", allowed |-> TRUE,
                    remainingAttempts |->
                      remainingOf(this, validAttempts, pushed)],
           ls |-> w.ls, threw |-> FALSE, acc |-> attempts.acc \o w.acc]

isAllowedX(this, st, t) ==
  LET attempts == getAttemptsX(this, st)
      validAttempts == validAttemptsOf(this, attempts.val, t)
  IN IF limitExceeded(this, validAttempts)
     THEN LET timeToWait == timeToWaitOf(this, validAttempts, t)
              d == deniedX(this, st, validAttempts)
          IN [ret |-> [kind |-> "object", allowed |-> FALSE,
                       timeToWait |-> Ceil(timeToWait, MsPerSecond)],
              ls |-> d.ls, threw |-> d.threw, acc |-> attempts.acc \o d.acc]
     ELSE LET pushed == Append(validAttempts, t)
              w == saveAttemptsX(this, st, pushed)
          IN IF w.threw
             THEN [ret |-> Exception, ls |-> w.ls, threw |-> TRUE,
                   acc |-> attempts.acc \o w.acc]
             ELSE [ret |-> [kind |-> "object", allowed |-> TRUE,
                            remainingAttempts |->
                              remainingOf(this, validAttempts, pushed)],
                   ls |-> w.ls, threw |-> FALSE, acc |-> attempts.acc \o w.acc]

\* RateLimiter.reset()
resetX(this, st) == removeItemX(st, this.storageKey)

getLockoutX(st) == readX(st, lockoutKey, Null)

getViolationsX(st) == readX(st, violationsKey, <<>>)

saveViolationsX(st, violations) ==
  [setItemX(st, violationsKey, violations) EXCEPT !.threw = FALSE]

\* a lockout that starts with an empty violation ledger
lockoutX_clearLedger(st, t, reason) ==
  LET l == setItemX(st, lockoutKey,
                    [until |-> t + lockoutDuration, reason |-> reason,
                     timestamp |-> t])
  IN IF l.threw THEN l
     ELSE [removeItemX([st EXCEPT !.ls = l.ls], violationsKey)
             EXCEPT !.acc = l.acc \o @]

\* lockout(): its setItem is not inside a try
lockoutX(st, t, reason) ==
  setItemX(st, lockoutKey,
           [until |-> t + lockoutDuration, reason |-> reason, timestamp |-> t])

\* only the lockout record removed
clearLockoutX_keepViolations(st) == removeItemX(st, lockoutKey)

\* clearLockout(): two removeItem calls, not inside a try
clearLockoutX(st) ==
  LET r1 == removeItemX(st, lockoutKey)
  IN IF r1.threw THEN r1
     ELSE LET r2 == removeItemX([st EXCEPT !.ls = r1.ls], violationsKey)
          IN [ls |-> r2.ls, threw |-> r2.threw, acc |-> r1.acc \o r2.acc]

isLockedOutX(st, t) ==
  LET found == getLockoutX(st)
  IN IF found.val = Null
     THEN [ret |-> Bool(FALSE), ls |-> st.ls, threw |-> FALSE, acc |-> found.acc]
     ELSE IF t < found.val.until
          THEN [ret |-> [kind |-> "object", locked |-> TRUE,
                         timeRemaining |->
                           Ceil(found.val.until - t, MsPerSecond),
                         reason |-> found.val.reason],
                ls |-> st.ls, threw |-> FALSE, acc |-> found.acc]
          ELSE LET c == clearLockoutX(st)
               IN [ret |-> IF c.threw THEN Exception
                           ELSE [kind |-> "object", locked |-> FALSE],
                   ls |-> c.ls, threw |-> c.threw, acc |-> found.acc \o c.acc]

recordViolationX(st, t, reason) ==
  LET read == getViolationsX(st)
      violations == Append(read.val, [timestamp |-> t, reason |-> reason])
      recentViolations == recentViolationsOf(violations, t)
      saved == saveViolationsX(st, recentViolations)
  IN IF thresholdReached(recentViolations)
     THEN LET l == lockoutX([st EXCEPT !.ls = saved.ls], t, reason)
          IN [ret |-> IF l.threw THEN Exception ELSE Bool(TRUE),
              ls |-> l.ls, threw |-> l.threw,
              acc |-> read.acc \o saved.acc \o l.acc]
     ELSE [ret |-> Bool(FALSE), ls |-> saved.ls, threw |-> FALSE,
           acc |-> read.acc \o saved.acc]

\* a handler's outcome: the values its calls returned, whether it went on
\* to the original action, and whether an exception left it
Outcome(op, lk, rc, rv, proceeded, last, acc) ==
  [op |-> op, lockout |-> lk, rateCheck |-> rc, shouldLockout |-> rv,
   proceeded |-> proceeded /\ ~last.threw, threw |-> last.threw,
   ls |-> last.ls, acc |-> acc]

\* the denied branch of both handlers: recordViolation(reason)
violationX(op, lk, rc, st, t, reason, acc) ==
  LET rv == recordViolationX([st EXCEPT !.ls = rc.ls], t, reason)
  IN Outcome(op, lk, rc.ret, rv.ret, FALSE, rv, acc \o rv.acc)

\* the rate-limit stage of both handlers
rateCheckX(op, this, lk, st, t, reason, acc) ==
  LET rc == isAllowedX(this, st, t)
  IN IF rc.threw THEN Outcome(op, lk, rc.ret, NoCall, FALSE, rc, acc \o rc.acc)
     ELSE IF ~rc.ret.allowed
          THEN violationX(op, lk, rc, st, t, reason, acc \o rc.acc)
          ELSE Outcome(op, lk, rc.ret, NoCall, TRUE, rc, acc \o rc.acc)

\* the handler with the limiter asked before the lockout is looked at
openOverlayX_rateFirst(st, t) ==
  LET rc == isAllowedX(overlayLimiter, st, t)
      lk == isLockedOutX([st EXCEPT !.ls = rc.ls], t)
  IN IF rc.threw
     THEN Outcome("openOverlay", NoCall, rc.ret, NoCall, FALSE, rc, rc.acc)
     ELSE IF lk.threw \/ LockedField(lk.ret)
          THEN Outcome("openOverlay", lk.ret, rc.ret, NoCall, FALSE, lk,
                       rc.acc \o lk.acc)
          ELSE IF ~rc.ret.allowed
               THEN violationX("openOverlay", lk.ret, rc,
                               [st EXCEPT !.ls = lk.ls], t, overlayReason,
                               rc.acc \o lk.acc)
               ELSE Outcome("openOverlay", lk.ret, rc.ret, NoCall, TRUE, lk,
                            rc.acc \o lk.acc)

openOverlayX(st, t) ==
  LET lk == isLockedOutX(st, t)
  IN IF lk.threw \/ LockedField(lk.ret)
     THEN Outcome("openOverlay", lk.ret, NoCall, NoCall, FALSE, lk, lk.acc)
     ELSE rateCheckX("openOverlay", overlayLimiter, lk.ret,
                     [st EXCEPT !.ls = lk.ls], t, overlayReason, lk.acc)

documentClickX(st, t) ==
  rateCheckX("documentClick", documentLimiter, NoCall, st, t, documentReason, <<>>)

showRateLimitStatusX(st, t) ==
  LET a1 == getAttemptsX(overlayLimiter, st)
      a2 == getAttemptsX(documentLimiter, st)
      lk == isLockedOutX(st, t)
  IN Outcome("showRateLimitStatus", lk.ret, NoCall, NoCall, FALSE, lk,
             a1.acc \o a2.acc \o lk.acc)

resetRateLimitsX(st, confirmed) ==
  LET none == [ls |-> st.ls, threw |-> FALSE, acc |-> <<>>]
  IN IF ~confirmed
     THEN Outcome("resetRateLimits", NoCall, NoCall, NoCall, FALSE, none, <<>>)
     ELSE LET r1 == resetX(overlayLimiter, st)
              r2 == resetX(documentLimiter, [st EXCEPT !.ls = r1.ls])
              r3 == clearLockoutX([st EXCEPT !.ls = r2.ls])
          IN IF r1.threw
             THEN Outcome("resetRateLimits", NoCall, NoCall, NoCall, FALSE, r1, r1.acc)
             ELSE IF r2.threw
                  THEN Outcome("resetRateLimits", NoCall, NoCall, NoCall, FALSE,
                               r2, r1.acc \o r2.acc)
                  ELSE Outcome("resetRateLimits", NoCall, NoCall, NoCall, TRUE,
                               r3, r1.acc \o r2.acc \o r3.acc)

(***************************************************************************)
(* The collector (logging-service.js, a Cloudflare Worker)                 *)
(*                                                                         *)
(* A JSON value carries its type: [t |-> "string", v |-> ...], "number",   *)
(* "array", "object" (f: its fields), and undefined for a field that is    *)
(* not there.  A header that is absent reads as NoHeader.                  *)
(***************************************************************************)
Undefined == [t |-> "undefined"]
JNull == [t |-> "null"]
JStr(x) == [t |-> "string", v |-> x]
JNum(n) == [t |-> "number", v |-> n]
JArr(q) == [t |-> "array", v |-> q]
Obj(fields) == [t |-> "object", f |-> fields]
\* a body that request.json() rejects
Unparsable == [t |-> "unparsable"]
NoHeader == "<absent>"

\* o.name, and o?.name when o is undefined
Get(o, name) ==
  IF o.t = "object" /\ name \in DOMAIN o.f THEN o.f[name] ELSE Undefined

\* { ...a, ...b }
Spread(a, b) ==
  [k \in DOMAIN a \cup DOMAIN b |-> IF k \in DOMAIN b THEN b[k] ELSE a[k]]

\* v === x for a string x
IsStr(v, x) == v.t = "string" /\ v.v = x
\* v > n and v < n for a number n (false on undefined)
Gt(v, n) == v.t = "number" /\ v.v > n
Lt(v, n) == v.t = "number" /\ v.v < n
\* !v is false
Truthy(v) ==
  /\ v.t \notin {"undefined", "null"}
  /\ v.t = "string" => v.v # ""
  /\ v.t = "number" => v.v # 0

\* String.prototype.includes
includes(x, sub) ==
  \E i \in 1..(Len(x) - Len(sub) + 1) : SubSeq(x, i, i + Len(sub) - 1) = sub

\* v?.includes(sub), undefined (falsy) when v is undefined
IncludesOpt(v, sub) == v.t = "string" /\ includes(v.v, sub)

API_KEY == "your-secret-api-key-change-this"
ALLOWED_ORIGINS == {"https://joanfelipgithub.github.io", "https://insscf.clickedu.eu"}
\* LOGGING_CONFIG.apiKey of the client
clientApiKey == "your-secret-api-key-change-this"

validTypes ==
  {"overlay_opened", "overlay_closed", "document_clicked", "security_warning",
   "security_block", "sheet_edit_accessed", "error"}

required == {"eventType", "timestamp"}

validateEvent(event) ==
  /\ \A field \in required : Truthy(Get(event, field))
  /\ \E x \in validTypes : IsStr(Get(event, "eventType"), x)

\* what one pattern check adds: its flags and whether it marks the event
NoMatch == [flags |-> <<>>, suspicious |-> FALSE]
Match(flag, suspicious) == [flags |-> <<flag>>, suspicious |-> suspicious]

\* Pattern 1
overlayOpensPattern(event) ==
  IF /\ IsStr(Get(event, "eventType"), "overlay_opened")
     /\ Gt(Get(Get(event, "metadata"), "openCount"), 50)
  THEN Match("excessive_overlay_opens", TRUE) ELSE NoMatch

\* Pattern 2
blockedDomainPattern(event) ==
  IF /\ IsStr(Get(event, "eventType"), "security_block")
     /\ IsStr(Get(Get(event, "metadata"), "reason"), "Domini no autoritzat")
  THEN Match("blocked_domain_access", TRUE) ELSE NoMatch

\* Pattern 3
rapidClickPattern(event) ==
  IF /\ IsStr(Get(event, "eventType"), "document_clicked")
     /\ Lt(Get(Get(event, "metadata"), "timeSinceLastClick"), 100)
  THEN Match("rapid_clicking", TRUE) ELSE NoMatch

\* flagged only when the request comes from an address that is not known
sheetEditPattern_unexpectedIP(event) ==
  IF /\ IsStr(Get(event, "eventType"), "sheet_edit_accessed")
     /\ ~IsStr(Get(event, "clientIP"), "203.0.113.7")
  THEN Match("sheet_edit_attempt", TRUE) ELSE NoMatch

\* the flag pushed without marking the event
sheetEditPattern_flagOnly(event) ==
  IF IsStr(Get(event, "eventType"), "sheet_edit_accessed")
  THEN Match("sheet_edit_attempt", FALSE) ELSE NoMatch

\* Pattern 4
sheetEditPattern(event) ==
  IF IsStr(Get(event, "eventType"), "sheet_edit_accessed")
  THEN Match("sheet_edit_attempt", TRUE) ELSE NoMatch

\* Pattern 5: the flag is pushed, isSuspicious is not set
corsErrorPattern(event) ==
  IF /\ IsStr(Get(event, "eventType"), "error")
     /\ IncludesOpt(Get(Get(event, "metadata"), "errorMessage"), "CORS")
  THEN Match("cors_error", FALSE) ELSE NoMatch

checkSecurityPatterns(event) ==
  LET checks == <<overlayOpensPattern(event), blockedDomainPattern(event),
                  rapidClickPattern(event), sheetEditPattern(event),
                  corsErrorPattern(event)>>
  IN [called |-> TRUE,
      isSuspicious |-> \E i \in 1..Len(checks) : checks[i].suspicious,
      flags |-> checks[1].flags \o checks[2].flags \o checks[3].flags
                \o checks[4].flags \o checks[5].flags]

\* generateEventId(): the n-th id the worker has made
EventId(n) == [t |-> "eventId", v |-> n]

\* a header as request.headers.get() gives it
Header(h) == IF h = NoHeader THEN JNull ELSE JStr(h)

\* the key checked before the origin
headerChecks_keyFirst(req) ==
  IF req.method # "POST" THEN 405
  ELSE IF req.apiKey # API_KEY THEN 401
  ELSE IF req.origin \notin ALLOWED_ORIGINS THEN 403
  ELSE 0

\* the checks on method, Origin and X-API-Key, in the order of the code:
\* the status of the first that fails, 0 when all pass
headerChecks(req) ==
  IF req.method # "POST" THEN 405
  ELSE IF req.origin \notin ALLOWED_ORIGINS THEN 403
  ELSE IF req.apiKey # API_KEY THEN 401
  ELSE 0

\* a response of the worker: its status, the CORS headers, and what the
\* worker did on the way (the enriched event, its classification, the alert,
\* the ids used)
Reply(status, event, securityCheck, alert, ids) ==
  [kind |-> "response", status |-> status, cors |-> TRUE, event |-> event,
   securityCheck |-> securityCheck, alert |-> alert, ids |-> ids]

\* checkSecurityPatterns() was not called
NoCheck == [called |-> FALSE]

enrich(event, req, ids) ==
  Obj(Spread(event.f,
             [timestamp |-> JStr("iso"),
              clientIP |-> IF req.clientIP = NoHeader THEN JStr("unknown")
                           ELSE JStr(req.clientIP),
              userAgent |-> Header(req.userAgent),
              referer |-> JNull,
              country |-> JNull,
              eventId |-> EventId(ids + 1)]))

\* handleRequest(request) when ids event ids have been made
handleRequest(req, ids) ==
  IF req.method = "OPTIONS" THEN Reply(200, Undefined, NoCheck, <<>>, ids)
  ELSE IF headerChecks(req) # 0
       THEN Reply(headerChecks(req), Undefined, NoCheck, <<>>, ids)
       ELSE IF req.body = Unparsable
            THEN Reply(500, Undefined, NoCheck, <<>>, ids)
            ELSE LET enrichedEvent == enrich(req.body, req, ids)
                     securityCheck == checkSecurityPatterns(enrichedEvent)
                 IN IF ~validateEvent(enrichedEvent)
                    THEN Reply(400, enrichedEvent, NoCheck, <<>>, ids + 1)
                    ELSE Reply(200, enrichedEvent, securityCheck,
                               IF securityCheck.isSuspicious
                               THEN <<securityCheck.flags>> ELSE <<>>,
                               ids + 1)

\* response.ok
responseOk(status) == status \in 200..299

\* how the fetch of flushEvents settles on a response of the collector
fetchOutcomeOf(status) == IF responseOk(status) THEN "ok" ELSE "notOk"

\* the event logSecurityEventToServer() builds
clientEvent(eventType, n, metadata) ==
  Obj([eventType |-> JStr(eventType), sessionId |-> JStr("sess_1"),
       eventNumber |-> JNum(n), sessionDuration |-> JNum(n),
       url |-> JStr("https://insscf.clickedu.eu/"),
       metadata |-> Obj(Spread(metadata, [userAgent |-> JStr("Mozilla/5.0"),
                                          language |-> JStr("ca")]))])

\* the request flushEvents() sends for a batch, from a page of an allowed origin
flushRequest(eventsToSend, origin) ==
  [method |-> "POST", origin |-> origin, apiKey |-> clientApiKey,
   clientIP |-> "203.0.113.7", userAgent |-> "Mozilla/5.0", from |-> "flushEvents",
   body |-> Obj([events |-> JArr(eventsToSend), batchId |-> JStr("batch_1")])]

NoExchange == [kind |-> "none"]

WorkerInit ==
  /\ request = NoExchange
  /\ response = NoExchange
  /\ alerts = <<>>
  /\ eventIds = 0

NoOutcome ==
  [op |-> "none", at |-> 0, lockout |-> NoCall, rateCheck |-> NoCall,
   shouldLockout |-> NoCall, proceeded |-> FALSE, threw |-> FALSE, acc |-> <<>>]

StoreInit ==
  /\ storage = "ok"
  /\ handled = NoOutcome

(***************************************************************************)
(* The state machine                                                       *)
(***************************************************************************)
Init ==
  /\ LogInit
  /\ StoreInit
  /\ WorkerInit
  /\ now = 0
  /\ localStorage = [k \in Keys |-> Null]
  /\ result = [op |-> "none", lockout |-> NoCall, rateCheck |-> NoCall,
               shouldLockout |-> NoCall, proceeded |-> FALSE]
  /\ lastCheck = [a \in Actions |-> [ret |-> NoCall, at |-> 0, before |-> <<>>]]
  /\ calls = [a \in Actions |-> NoCalls]
  /\ ledger = NoLedger

Tick ==
  /\ \E t \in TimePoints : t > now /\ now' = t
  /\ UNCHANGED <<rateVars, logVars, restVars>>

OpenOverlay ==
  LET o == openOverlay(localStorage, now)
  IN /\ Len(getViolations(o.ls)) <= MaxViolations
     /\ localStorage' = o.ls
     /\ Observe(o, "overlay_open", now)
     /\ UNCHANGED <<now, logVars, restVars>>

DocumentClick ==
  LET o == documentClick(localStorage, now)
  IN /\ Len(getViolations(o.ls)) <= MaxViolations
     /\ localStorage' = o.ls
     /\ Observe(o, "document_click", now)
     /\ UNCHANGED <<now, logVars, restVars>>

ShowRateLimitStatus ==
  LET o == showRateLimitStatus(localStorage, now)
  IN /\ localStorage' = o.ls
     /\ Observe(o, "overlay_open", now)
     /\ UNCHANGED <<now, logVars, restVars>>

ResetRateLimits ==
  \E confirmed \in BOOLEAN :
    /\ localStorage' = resetRateLimits(localStorage, confirmed)
    /\ result' = [op |-> "resetRateLimits", lockout |-> NoCall, rateCheck |-> NoCall,
                  shouldLockout |-> NoCall, proceeded |-> confirmed]
    /\ calls' = IF confirmed THEN [a \in Actions |-> NoCalls] ELSE calls
    /\ ledger' = IF confirmed THEN NoLedger ELSE ledger
    /\ UNCHANGED <<now, lastCheck, logVars, restVars>>

Next == Tick \/ OpenOverlay \/ DocumentClick \/ ShowRateLimitStatus \/ ResetRateLimits

Spec == Init /\ [][Next]_vars

(***************************************************************************)
(* The state machine of the pipeline                                       *)
(***************************************************************************)
\* the program state after a step that leaves the pipeline in p
SetPipeline(p) ==
  /\ eventQueue' = p.eventQueue
  /\ flushTimer' = p.flushTimer
  /\ eventCounter' = p.eventCounter
  /\ timers' = p.timers
  /\ inFlight' = p.inFlight

\* the batches counted per event after a step that started the fetches in
\* started: every event of the batch has been sent once more
CountSends(started) ==
  IF started = {} THEN sends
  ELSE LET batch == (CHOOSE b \in started : TRUE).events
       IN [e \in DOMAIN sends |->
             IF e \in Elems(batch)
             THEN [n |-> sends[e].n + 1, size |-> Len(batch)]
             ELSE sends[e]]

\* the bookkeeping of a step that may have started a flush
ObserveFlush(op, p, settledNow) ==
  LET started == p.inFlight \ inFlight
      batch == IF started = {} THEN <<>> ELSE (CHOOSE b \in started : TRUE).events
  IN /\ requeued' = requeued \ Elems(batch)
     /\ firstUnflushed' = IF started # {} THEN -1
                          ELSE IF op = "enqueue" /\ firstUnflushed = -1 THEN now
                          ELSE firstUnflushed
     /\ logResult' = [op |-> op, batch |-> batch,
                      cancelled |-> (started # {} /\ timers # {} /\ p.timers = {}),
                      outcome |-> "none", before |-> eventQueue,
                      settled |-> IF started # {} THEN {} ELSE settledNow]

\* any caller of logSecurityEventToServer(): one event is created and queued
EnqueueStep ==
  /\ page = "loaded"
  /\ eventCounter < MaxEvents
  /\ LET p == logSecurityEventToServer(Pipeline, now)
     IN /\ SetPipeline(p)
        /\ ObserveFlush("enqueue", p,
             {[fn |-> "logSecurityEventToServer", status |-> "fulfilled"]})
  /\ UNCHANGED <<now, rateVars, restVars, beacons, page, delivered, dropped>>

Enqueue ==
  /\ EnqueueStep
  /\ UNCHANGED sends

\* the callback of the flush timer
TimerFiresStep ==
  /\ page = "loaded"
  /\ \E x \in timers :
       /\ now >= x.due
       /\ LET p == flushEvents([Pipeline EXCEPT !.timers = @ \ {x}], FALSE)
          IN /\ SetPipeline(p)
             /\ ObserveFlush("timer", p,
                  {[fn |-> "flushEvents", status |-> "fulfilled"]})
  /\ UNCHANGED <<now, rateVars, restVars, beacons, page, delivered, dropped>>

TimerFires ==
  /\ TimerFiresStep
  /\ UNCHANGED sends

\* the fetch of batch b settles with the given outcome and flushEvents() resumes
CompleteStep(b, outcome) ==
  /\ page = "loaded"
  /\ b \in inFlight
  /\ LET p == flushResume(Pipeline, b, outcome)
         back == outcome # "ok" /\ p.eventQueue # eventQueue
         status == settleOf(outcome)
     IN /\ SetPipeline(p)
        /\ delivered' = IF outcome = "ok" THEN delivered \cup Elems(b.events)
                        ELSE delivered
        /\ dropped' = IF outcome # "ok" /\ ~back THEN dropped \cup Elems(b.events)
                      ELSE dropped
        /\ requeued' = IF back THEN requeued \cup Elems(b.events) ELSE requeued
        /\ logResult' = [op |-> "fetch", batch |-> b.events, cancelled |-> FALSE,
                         outcome |-> outcome, before |-> eventQueue,
                         settled |->
                           {[fn |-> "flushEvents", status |-> status]} \cup
                           (IF b.awaited
                            THEN {[fn |-> "logSecurityEventToServer", status |-> status]}
                            ELSE {})]
  /\ UNCHANGED <<now, rateVars, restVars, beacons, page, firstUnflushed>>

Complete(b, outcome) ==
  /\ CompleteStep(b, outcome)
  /\ UNCHANGED sends

FetchCompletes == \E b \in inFlight : \E outcome \in FetchOutcomes : Complete(b, outcome)

\* the beforeunload listener; the page is gone afterwards
BeforeUnload ==
  /\ page = "loaded"
  /\ beacons' = beacons \o beaconOf(eventQueue, now)
  /\ page' = "unloaded"
  /\ logResult' = [NoLogResult EXCEPT !.op = "beforeunload", !.before = eventQueue]
  /\ UNCHANGED <<now, rateVars, restVars, eventQueue, flushTimer, eventCounter, timers,
                 inFlight, delivered, dropped, requeued, firstUnflushed, sends>>

\* the deadline of the timer that is due first
NextDue == CHOOSE d \in {x.due : x \in timers} : \A x \in timers : d <= x.due

\* time passes, up to the next deadline when a timer is pending
Elapse ==
  /\ page = "loaded"
  /\ \E d \in LogSteps :
       /\ timers = {} => now + d <= MaxLogTime
       /\ now' = IF timers # {} /\ now + d > NextDue THEN NextDue ELSE now + d
       /\ now' > now
  /\ UNCHANGED <<rateVars, logVars, restVars>>

LogNext == Enqueue \/ TimerFires \/ FetchCompletes \/ BeforeUnload \/ Elapse

SpecLog == Init /\ [][LogNext]_vars

\* the page stays loaded; due timers fire and started fetches settle
LogNextLoaded == Enqueue \/ TimerFires \/ FetchCompletes \/ Elapse

SpecLogFair ==
  /\ Init
  /\ [][LogNextLoaded]_vars
  /\ WF_vars(TimerFires)
  /\ WF_vars(FetchCompletes)
  /\ WF_vars(Elapse)

(***************************************************************************)
(* The same pipeline with the sends of each event counted                  *)
(***************************************************************************)
EnqueueCounted ==
  /\ EnqueueStep
  /\ sends' = CountSends(inFlight' \ inFlight)

TimerFiresCounted ==
  /\ TimerFiresStep
  /\ sends' = CountSends(inFlight' \ inFlight)

FetchCompletesCounted ==
  /\ \E b \in inFlight : \E outcome \in FetchOutcomes : CompleteStep(b, outcome)
  /\ sends' = CountSends(inFlight' \ inFlight)

RetryNext ==
  \/ EnqueueCounted \/ TimerFiresCounted \/ FetchCompletesCounted
  \/ BeforeUnload \/ Elapse

SpecRetry == Init /\ [][RetryNext]_vars

(***************************************************************************)
(* The state machine of the handlers on a store that can throw             *)
(***************************************************************************)
Store == [ls |-> localStorage, mode |-> storage]

\* the state after a handler whose outcome is o
SetOutcome(o) ==
  /\ Len(getViolationsX([ls |-> o.ls, mode |-> "ok"]).val) <= maxFailedAttempts
  /\ localStorage' = o.ls
  /\ handled' = [op |-> o.op, at |-> now, lockout |-> o.lockout,
                 rateCheck |-> o.rateCheck, shouldLockout |-> o.shouldLockout,
                 proceeded |-> o.proceeded, threw |-> o.threw, acc |-> o.acc]
  /\ UNCHANGED <<result, lastCheck, calls, ledger, logVars, workerVars>>

\* the clock moves on to the next instant at which it is read
StoreTick ==
  /\ \E t \in StoreTimes : t > now /\ now' = t
  /\ UNCHANGED <<rateVars, logVars, restVars>>

OpenOverlayX ==
  /\ SetOutcome(openOverlayX(Store, now))
  /\ UNCHANGED <<now, storage>>

DocumentClickX ==
  /\ SetOutcome(documentClickX(Store, now))
  /\ UNCHANGED <<now, storage>>

ShowRateLimitStatusX ==
  /\ SetOutcome(showRateLimitStatusX(Store, now))
  /\ UNCHANGED <<now, storage>>

ResetRateLimitsX ==
  /\ \E confirmed \in BOOLEAN : SetOutcome(resetRateLimitsX(Store, confirmed))
  /\ UNCHANGED <<now, storage>>

\* the quota runs out or is freed, access to the storage is denied or granted
StorageChanges ==
  /\ \E m \in StorageModes : m # storage /\ storage' = m
  /\ UNCHANGED <<now, localStorage, handled, result, lastCheck, calls, ledger,
                 logVars, workerVars>>

\* the text stored under a key is damaged (one key at a time)
Corrupt ==
  /\ \E k \in Keys :
       /\ localStorage[k] \notin {Null, Garbage}
       /\ \A other \in Keys : localStorage[other] # Garbage
       /\ localStorage' = [localStorage EXCEPT ![k] = Garbage]
  /\ UNCHANGED <<now, storage, handled, result, lastCheck, calls, ledger,
                 logVars, workerVars>>

StoreNext ==
  \/ StoreTick \/ OpenOverlayX \/ DocumentClickX \/ ShowRateLimitStatusX
  \/ ResetRateLimitsX \/ StorageChanges \/ Corrupt

SpecStore == Init /\ [][StoreNext]_vars

(***************************************************************************)
(* The state machine of the collector                                      *)
(***************************************************************************)
\* the metadata of the events the model sends, by event type
MetadataOf(eventType) ==
  IF eventType = "overlay_opened" THEN {[openCount |-> JNum(50)], [openCount |-> JNum(51)]}
  ELSE IF eventType = "security_block"
       THEN {[reason |-> JStr("Domini no autoritzat")], [reason |-> JStr("URL no valida")]}
  ELSE IF eventType = "document_clicked"
       THEN {[timeSinceLastClick |-> JNum(99)], [timeSinceLastClick |-> JNum(100)]}
  ELSE IF eventType = "error"
       THEN {[errorMessage |-> JStr("Blocked by CORS policy")],
             [errorMessage |-> JStr("Failed to load")]}
  ELSE {[level |-> JStr("info")]}

\* the event types of the client: the whitelist and the default of
\* getEventTypeFromMessage()
ClientTypes == validTypes \cup {"security_event"}

\* events as the client builds them, and events without metadata, with an
\* empty eventType or with none
Events ==
  UNION {{clientEvent(ty, 1, md) : md \in MetadataOf(ty)} : ty \in ClientTypes}
  \cup {Obj([eventType |-> JStr(ty)]) : ty \in validTypes \cup {""}}
  \cup {Obj([metadata |-> Obj([openCount |-> JNum(51)])])}

\* the batches of the model: up to MaxBatch events of whitelisted types,
\* numbered in the order of their creation
Batches ==
  UNION {{[i \in 1..n |-> clientEvent(ty[i], i, [level |-> JStr("info")])] :
            ty \in [1..n -> {"overlay_closed", "security_warning"}]} :
         n \in 1..MaxBatch}

Origins == {"https://joanfelipgithub.github.io", "https://evil.example", NoHeader}
ClientIPs == {"203.0.113.7", "198.51.100.9"}

\* one event that passes validation and one that does not
ProbeBodies ==
  {clientEvent("overlay_closed", 1, [level |-> JStr("info")]),
   Obj([eventType |-> JStr("")])}

\* the requests of the model: every combination of method, Origin and key
\* with a probe body, and every body behind headers that pass
Requests ==
  [method : {"OPTIONS", "POST", "GET"}, origin : Origins,
   apiKey : {API_KEY, "wrong-key"}, clientIP : {"203.0.113.7"},
   userAgent : {"Mozilla/5.0"}, from : {"any"}, body : ProbeBodies]
  \cup
  [method : {"POST"}, origin : {"https://joanfelipgithub.github.io"},
   apiKey : {API_KEY}, clientIP : ClientIPs,
   userAgent : {"Mozilla/5.0"}, from : {"any"},
   body : Events \cup {Unparsable}]

\* the worker answers req
Answer(req) ==
  LET res == handleRequest(req, eventIds)
  IN /\ res.ids <= MaxEventIds
     /\ Len(alerts \o res.alert) <= MaxAlerts
     /\ request' = req
     /\ response' = res
     /\ alerts' = alerts \o res.alert
     /\ eventIds' = res.ids

\* a request from anywhere reaches the worker
Receive ==
  /\ \E req \in Requests : Answer(req)
  /\ UNCHANGED <<now, rateVars, logVars, storeVars>>

\* flushEvents() of a page of an allowed origin posts a batch
ClientFlush ==
  /\ \E eventsToSend \in Batches : \E origin \in ALLOWED_ORIGINS :
       Answer(flushRequest(eventsToSend, origin))
  /\ UNCHANGED <<now, rateVars, logVars, storeVars>>

WorkerNext == Receive \/ ClientFlush

SpecWorker == Init /\ [][WorkerNext]_vars

(***************************************************************************)
(* Helpers of the properties                                               *)
(***************************************************************************)
Min2(a, b) == IF a < b THEN a ELSE b

\* the last isAllowed() call on limiter a was a denial
Denied(a) == lastCheck[a].ret # NoCall /\ ~lastCheck[a].ret.allowed

\* this step is a handler that calls isAllowed() on limiter a
IsAllowedStep(a) ==
  /\ result'.rateCheck # NoCall
  /\ IF a = "overlay_open" THEN OpenOverlay ELSE DocumentClick

\* a lockout is stored and has not run out
LockoutActive == getLockout(localStorage) # Null /\ now < getLockout(localStorage).until

(***************************************************************************)
(* Rate limiter                                                            *)
(***************************************************************************)
\* C1: of the N isAllowed() calls made on a limiter since its store was
\* empty, all within a span shorter than windowMs, exactly min(N, maxAttempts)
\* were allowed (and so N - min(N, maxAttempts) denied).
C1_AllowsMinOfCalls ==
  \A a \in Actions :
    calls[a].first >= 0 =>
      calls[a].allowed = Min2(calls[a].n, LimiterOf(a).maxAttempts)

\* calls spread over time, more of them than the cap
C1_Witness ==
  \E a \in Actions :
    /\ calls[a].first >= 0
    /\ calls[a].n > LimiterOf(a).maxAttempts
    /\ lastCheck[a].at > calls[a].first

\* C2: every denial of isAllowed() carries a wait of at least 1 second and
\* at most ceil(windowMs / 1000) seconds.
C2_DenialWaitInRange ==
  \A a \in Actions :
    Denied(a) =>
      /\ lastCheck[a].ret.timeToWait >= 1
      /\ lastCheck[a].ret.timeToWait <= Ceil(LimiterOf(a).windowMs, MsPerSecond)

\* a denial less than a second before the oldest attempt leaves the window
C2_Witness ==
  \E a \in Actions :
    /\ Denied(a)
    /\ lastCheck[a].ret.timeToWait = 1
    /\ timeToWaitOf(LimiterOf(a), lastCheck[a].before, lastCheck[a].at) < MsPerSecond

\* C3: a call on a limiter whose store holds maxAttempts attempts, made once
\* windowMs has passed since the oldest of them, is allowed; the attempts
\* that are not yet windowMs old stay in the store (the window slides).
C3_WindowSlides ==
  [][\A a \in Actions :
       LET this == LimiterOf(a)
           stored == getAttempts(this, localStorage)
       IN (/\ IsAllowedStep(a)
           /\ Len(stored) = this.maxAttempts
           /\ now >= MinOf(stored) + this.windowMs)
          => /\ result'.rateCheck.allowed
             /\ getAttempts(this, localStorage') =
                  Append(SelectSeq(stored, LAMBDA ts : ts + this.windowMs > now), now)
    ]_vars

\* the oldest attempt had left the window and a younger one had not
C3_Witness ==
  \E a \in Actions :
    LET lc == lastCheck[a] this == LimiterOf(a)
    IN /\ lc.ret # NoCall
       /\ Len(lc.before) = this.maxAttempts
       /\ lc.at >= MinOf(lc.before) + this.windowMs
       /\ \E i \in 1..Len(lc.before) : lc.before[i] + this.windowMs > lc.at
       /\ lc.ret.allowed

\* C4: after a denial at time t with a wait of w seconds and no call on that
\* limiter since, a call at any time from t + w seconds on is allowed.
C4_AllowedAfterWait ==
  \A a \in Actions :
    (Denied(a) /\ now >= lastCheck[a].at + lastCheck[a].ret.timeToWait * MsPerSecond)
      => isAllowed(LimiterOf(a), localStorage, now).ret.allowed

\* the wait of a denial is over and the store still holds the attempts
C4_Witness ==
  \E a \in Actions :
    /\ Denied(a)
    /\ now >= lastCheck[a].at + lastCheck[a].ret.timeToWait * MsPerSecond
    /\ getAttempts(LimiterOf(a), localStorage) = lastCheck[a].before
    /\ Len(lastCheck[a].before) = LimiterOf(a).maxAttempts

(***************************************************************************)
(* Lockout manager                                                         *)
(***************************************************************************)
\* C5: counted from an empty ledger with no lockout, and all within 5
\* minutes, the first four recordViolation calls return false and install no
\* lockout, the fifth returns true and installs one; while a lockout is in
\* force isLockedOut() reports locked with timeRemaining =
\* ceil((until - now) / 1000), which is at most lockoutDuration / 1000.
C5_FifthViolationLocks ==
  /\ (result.shouldLockout # NoCall /\ ledger.first >= 0) =>
       /\ ledger.n < maxFailedAttempts =>
            (~result.shouldLockout.val /\ getLockout(localStorage) = Null)
       /\ ledger.n = maxFailedAttempts =>
            (result.shouldLockout.val /\ getLockout(localStorage) # Null)
  /\ LockoutActive =>
       LET r == isLockedOut(localStorage, now).ret
       IN /\ LockedField(r)
          /\ r.timeRemaining = Ceil(getLockout(localStorage).until - now, MsPerSecond)
          /\ r.timeRemaining <= lockoutDuration \div MsPerSecond
  /\ LockedField(result.lockout) =>
       result.lockout.timeRemaining \in 1..(lockoutDuration \div MsPerSecond)

\* the fifth violation has locked, and a later isLockedOut() reported it
C5_Witness ==
  /\ ledger.first >= 0
  /\ ledger.n = maxFailedAttempts
  /\ result.op = "showRateLimitStatus"
  /\ LockedField(result.lockout)
  /\ LockoutActive

\* C6: the first isLockedOut() call at or after the end of the lockout
\* reports unlocked and removes the lockout record and the violation
\* history; any later call with no new violation reports unlocked and leaves
\* the store as it is.
C6_ExpiryClears ==
  [][(getLockout(localStorage) # Null
        /\ now >= getLockout(localStorage).until
        /\ (ShowRateLimitStatus \/ OpenOverlay))
     => /\ result'.lockout = [kind |-> "object", locked |-> FALSE]
        /\ localStorage'[lockoutKey] = Null
        /\ result'.shouldLockout = NoCall => localStorage'[violationsKey] = Null
        /\ \A t \in TimePoints :
             t >= now =>
               LET again == isLockedOut(localStorage', t)
               IN ~LockedField(again.ret) /\ again.ls = localStorage'
    ]_vars

\* an isLockedOut() call has found the lockout run out and cleared the store
C6_Witness ==
  /\ result.lockout = [kind |-> "object", locked |-> FALSE]
  /\ localStorage[lockoutKey] = Null
  /\ localStorage[violationsKey] = Null

\* C7: a recordViolation call made while a lockout is in force leaves the
\* stored lockout (its until and its reason) as it was.
C7_ActiveLockoutKept ==
  [][(LockoutActive /\ (OpenOverlay \/ DocumentClick) /\ result'.shouldLockout # NoCall)
     => localStorage'[lockoutKey] = localStorage[lockoutKey]
    ]_vars

\* C8: while a lockout is in force neither the overlay-open action nor the
\* document-click action goes ahead.
C8_LockoutDeniesAll ==
  [][(LockoutActive /\ (OpenOverlay \/ DocumentClick)) => ~result'.proceeded]_vars

\* C9: whatever is stored, isLockedOut() returns a record with a boolean
\* field locked.
C9_ReturnsRecord ==
  result.lockout # NoCall =>
    /\ result.lockout.kind = "object"
    /\ "locked" \in DOMAIN result.lockout
    /\ result.lockout.locked \in BOOLEAN

\* C10: the store holds at most one lockout record, a single record whose
\* until is later than its issue time (timestamp); a new lockout takes the
\* place of the one before.
C10_OneLockoutRecord ==
  LET l == getLockout(localStorage)
  IN l # Null =>
       /\ DOMAIN l = {"until", "reason", "timestamp"}
       /\ l.until > l.timestamp

\* a lockout installed over an earlier one
C10_Witness ==
  LET l == getLockout(localStorage)
      v == getViolations(localStorage)
  IN /\ l # Null
     /\ Len(v) > maxFailedAttempts
     /\ l.timestamp = v[Len(v)].timestamp
     /\ l.timestamp > v[maxFailedAttempts].timestamp

(***************************************************************************)
(* Delivery pipeline                                                       *)
(***************************************************************************)
\* the events of the batches in flight
InFlightEvents == UNION {Elems(b.events) : b \in inFlight}

\* how many times event e occurs in sequence q
Occurrences(q, e) == Cardinality({i \in 1..Len(q) : q[i] = e})

\* C11: an enqueue that brings the queue to batchSize starts a flush in that
\* same step: the batch is the queue of that moment in insertion order and
\* the queue is empty afterwards; an enqueue never changes a batch that is
\* already in flight.
C11_SizeTriggerSnapshot ==
  [][Enqueue =>
       /\ Len(eventQueue) + 1 >= batchSize =>
            /\ inFlight' \ inFlight =
                 {[events |-> Append(eventQueue, eventCounter'), awaited |-> TRUE]}
            /\ Len(eventQueue') = 0
       /\ inFlight \subseteq inFlight'
       /\ \A b \in inFlight : eventCounter' \notin Elems(b.events)
    ]_vars

\* a batch taken by the size trigger is in flight and a later event is queued
C11_Witness ==
  \E b \in inFlight :
    /\ b.awaited
    /\ Len(b.events) = batchSize
    /\ Len(eventQueue) > 0
    /\ \A e \in Elems(eventQueue) : e \notin Elems(b.events)
    /\ logResult.op = "enqueue"

Failures == {"notOk", "throw"}

\* C12: when the send of a batch of fewer than the ceiling's number of events
\* fails, the queue afterwards is that batch, in its order, followed by what
\* the queue held (the events queued since the batch was taken).
C12_FailedBatchToFront ==
  [][\A b \in inFlight : \A o \in Failures :
       (Len(b.events) < requeueCeiling /\ Complete(b, o))
         => eventQueue' = b.events \o eventQueue
    ]_vars

\* a failed batch has been put in front of events queued during its send
C12_Witness ==
  /\ logResult.op = "fetch"
  /\ logResult.outcome \in Failures
  /\ Len(logResult.batch) < requeueCeiling
  /\ Len(logResult.before) > 0
  /\ eventQueue = logResult.batch \o logResult.before

\* C13: when the send of a batch that has reached the ceiling fails, the
\* queue stays exactly as it was and the events of the batch are in no queue
\* and no batch from then on.
C13_CeilingBatchDropped ==
  [][/\ \A b \in inFlight : \A o \in Failures :
          (Len(b.events) >= requeueCeiling /\ Complete(b, o))
            => /\ eventQueue' = eventQueue
               /\ Elems(b.events) \subseteq dropped'
     /\ \A e \in dropped :
          /\ e \in dropped'
          /\ e \notin Elems(eventQueue')
          /\ \A b \in inFlight' : e \notin Elems(b.events)
    ]_vars

\* a batch at the ceiling has failed and its events are gone
C13_Witness ==
  /\ logResult.op = "fetch"
  /\ logResult.outcome \in Failures
  /\ Len(logResult.batch) >= requeueCeiling
  /\ Elems(logResult.batch) \subseteq dropped
  /\ eventQueue = logResult.before

\* C14: the queue holds its events in creation order, whatever the
\* interleaving of enqueues, flush starts and failures.
C14_QueueInCreationOrder ==
  \A i, j \in 1..Len(eventQueue) : i < j => eventQueue[i] < eventQueue[j]

\* C15: an event that was created and is neither delivered nor dropped is in
\* exactly one place: once in the queue or once in one batch in flight.
C15_EventInOnePlace ==
  \A e \in 1..eventCounter :
    e \notin (delivered \cup dropped) =>
      /\ \A b \in inFlight : Occurrences(b.events, e) <= 1
      /\ Occurrences(eventQueue, e)
           + Cardinality({b \in inFlight : e \in Elems(b.events)}) = 1

\* events in the queue (some put back by a failure) while two sends are in flight
C15_Witness ==
  /\ Cardinality(inFlight) >= 2
  /\ Len(eventQueue) > 0
  /\ requeued # {}

\* C16: at most one flush timer is pending, and the handle names it; an
\* enqueue made while it is pending leaves it as it is, so that it fires one
\* flushInterval after the first enqueue since the last flush start.
C16_OneTimer ==
  [][/\ Cardinality(timers') <= 1
     /\ \A x \in timers' :
          /\ x.id = flushTimer'
          /\ firstUnflushed' >= 0
          /\ x.due = firstUnflushed' + flushInterval
     /\ (Enqueue /\ timers # {} /\ inFlight' = inFlight) => timers' = timers
     /\ TimerFires => now = firstUnflushed + flushInterval
    ]_vars

\* an event was queued while the timer of an earlier one was pending
C16_Witness ==
  /\ Cardinality(timers) = 1
  /\ logResult.op = "enqueue"
  /\ Len(logResult.before) > 0
  /\ Elems(logResult.before) \cap requeued = {}
  /\ now > firstUnflushed
  /\ firstUnflushed >= 0

\* C17: a flush started by the size trigger leaves no timer pending and the
\* timer handle empty.
C17_SizeFlushCancelsTimer ==
  [][(Enqueue /\ inFlight' # inFlight)
       => (timers' = {} /\ flushTimer' = NoTimer)
    ]_vars

\* a size-triggered flush has just cancelled a pending timer
C17_Witness ==
  /\ logResult.op = "enqueue"
  /\ logResult.cancelled
  /\ Len(logResult.batch) >= batchSize
  /\ timers = {}
  /\ flushTimer = NoTimer

\* C18: while the page stays loaded and timers fire, an event that a failed
\* send has put back is in a batch of a later flush, also when no further
\* event is queued.
C18_RequeuedSentAgain ==
  \A e \in 1..MaxEvents : (e \in requeued) ~> (e \in InFlightEvents)

\* C19: the unload listener hands the whole queue to sendBeacon in one
\* payload {events, batchId}, once, when the queue is not empty, and nothing
\* when it is empty; it changes neither the queue nor the sends in flight,
\* and no event of a batch in flight is in the payload.
C19_UnloadBeacon ==
  [][BeforeUnload =>
       /\ IF Len(eventQueue) > 0
          THEN /\ beacons' = Append(beacons, [events |-> eventQueue, batchId |-> now])
               /\ \A b \in inFlight :
                    Elems(b.events) \cap Elems(beacons'[Len(beacons')].events) = {}
          ELSE beacons' = beacons
       /\ Len(beacons') <= 1
       /\ eventQueue' = eventQueue
       /\ inFlight' = inFlight
    ]_vars

\* the page was torn down with events queued and a send in flight
C19_Witness ==
  /\ page = "unloaded"
  /\ Len(beacons) = 1
  /\ beacons[1].events = eventQueue
  /\ inFlight # {}

HandledLimiter ==
  IF handled.op = "openOverlay" THEN overlayLimiter ELSE documentLimiter

\* the last handler made an access fn to key that threw
Threw(fn, key) ==
  \E i \in 1..Len(handled.acc) :
    handled.acc[i] = Access(fn, key, TRUE)

\* the last handler made an access fn to key
Accessed(fn, key) ==
  \E i \in 1..Len(handled.acc) :
    handled.acc[i].fn = fn /\ handled.acc[i].key = key

\* C21: an isAllowed() call in which the read or the write of the attempt
\* store throws returns allowed = true and raises nothing; after a failed
\* read the attempts count as empty (remainingAttempts = maxAttempts - 1);
\* so with every access failing every call is allowed.
C21_FailsOpen ==
  LET key == HandledLimiter.storageKey
  IN (handled.rateCheck # NoCall /\ (Threw("getItem", key) \/ Threw("setItem", key)))
     => /\ handled.rateCheck.kind = "object"
        /\ handled.rateCheck.allowed
        /\ ~handled.threw
        /\ Threw("getItem", key) =>
             handled.rateCheck.remainingAttempts = HandledLimiter.maxAttempts - 1

\* a call allowed with both accesses failing while the store holds
\* maxAttempts attempts of the current window
C21_Witness ==
  LET this == HandledLimiter
      key == this.storageKey
  IN /\ handled.rateCheck # NoCall
     /\ handled.at = now
     /\ Threw("getItem", key) /\ Threw("setItem", key)
     /\ handled.rateCheck.allowed
     /\ localStorage[key] \notin {Null, Garbage}
     /\ Len(validAttemptsOf(this, localStorage[key].val, now)) = this.maxAttempts

\* C22: a storage access that fails during a Lockout Manager operation
\* (isLockedOut, recordViolation with the lockout it installs, clearing) is
\* recovered as empty or absent state: no exception leaves the handler.
C22_LockoutNeverRaises ==
  (\E fn \in {"getItem", "setItem", "removeItem"} :
     \E key \in {lockoutKey, violationsKey} : Threw(fn, key))
  => ~handled.threw

(***************************************************************************)
(* The two limiters and the administrative reset                           *)
(***************************************************************************)
\* this step is a handler that calls isAllowed() on limiter this
IsAllowedStepX(this) ==
  /\ handled'.rateCheck # NoCall
  /\ now' = now /\ storage' = storage
  /\ IF this = overlayLimiter THEN OpenOverlayX ELSE DocumentClickX

\* what the store of a limiter can hold: nothing, damaged text, or
\* maxAttempts attempts made just now
StoresOf(this) ==
  {Null, Garbage, Stored([i \in 1..this.maxAttempts |-> now])}

\* C23: an isAllowed() or reset() call on one limiter leaves the stored
\* attempts of the other limiter as they were, and the answer of isAllowed()
\* is the same whatever the other limiter has stored.
C23_LimitersIndependent ==
  [][\A this \in Limiters : \A other \in Limiters \ {this} :
       /\ IsAllowedStepX(this) =>
            /\ localStorage'[other.storageKey] = localStorage[other.storageKey]
            /\ \A v \in StoresOf(other) :
                 isAllowedX(this,
                            [Store EXCEPT !.ls[other.storageKey] = v], now).ret
                   = handled'.rateCheck
       /\ resetX(this, Store).ls[other.storageKey] = localStorage[other.storageKey]
    ]_vars

\* one limiter has just denied while the other has room left
C23_Witness ==
  \E this \in Limiters : \E other \in Limiters \ {this} :
    /\ handled.op = (IF this = overlayLimiter THEN "openOverlay" ELSE "documentClick")
    /\ handled.at = now
    /\ handled.rateCheck # NoCall
    /\ handled.rateCheck.kind = "object"
    /\ ~handled.rateCheck.allowed
    /\ localStorage[other.storageKey] \notin {Null, Garbage}
    /\ isAllowedX(other, Store, now).ret.allowed

RECURSIVE AllowedRun(_, _, _, _)
\* n isAllowed() calls in a row at time t, starting on store st, are all allowed
AllowedRun(this, st, t, n) ==
  IF n = 0 THEN TRUE
  ELSE LET rc == isAllowedX(this, st, t)
       IN /\ rc.ret.kind = "object"
          /\ rc.ret.allowed
          /\ AllowedRun(this, [st EXCEPT !.ls = rc.ls], t, n - 1)

\* C24: after a confirmed resetRateLimits() the attempts of both limiters,
\* the lockout record and the violation history are absent: isLockedOut()
\* reports unlocked, each limiter allows maxAttempts calls again, and the
\* next recordViolation is the first of its ledger.
C24_ResetClearsAll ==
  [][(handled'.op = "resetRateLimits" /\ handled'.proceeded /\ ResetRateLimitsX)
     => LET after == [ls |-> localStorage', mode |-> storage']
            rv == recordViolationX(after, now, overlayReason)
        IN /\ \A k \in Keys : localStorage'[k] = Null
           /\ ~LockedField(isLockedOutX(after, now).ret)
           /\ \A this \in Limiters : AllowedRun(this, after, now, this.maxAttempts)
           /\ rv.ret = Bool(FALSE)
           /\ storage = "ok" => Len(rv.ls[violationsKey].val) = 1
    ]_vars

\* a confirmed reset has run on a working store and removed the four keys
C24_Witness ==
  /\ handled.op = "resetRateLimits"
  /\ handled.proceeded
  /\ storage = "ok"
  /\ \A k \in Keys : Accessed("removeItem", k) /\ localStorage[k] = Null

(***************************************************************************)
(* Collector                                                               *)
(***************************************************************************)
\* the worker has answered and checkSecurityPatterns() was called for it
Classified(res) == res # NoExchange /\ res.securityCheck.called

\* event e with the fields the server adds replaced
WithServerFields(e, ip, n, ua) ==
  Obj([e.f EXCEPT !.clientIP = JStr(ip), !.eventId = EventId(n), !.userAgent = ua])

FlagsOf(q) == {q[i] : i \in 1..Len(q)}

\* C26: the classifier returns isSuspicious = true exactly when at least one
\* pattern check matched, that is exactly when the flag sequence is not empty.
C26_SuspiciousIffFlagged ==
  Classified(response) =>
    (response.securityCheck.isSuspicious <=> response.securityCheck.flags # <<>>)

\* C26 as amended: isSuspicious = true exactly when a pattern check other
\* than the CORS-error check matched (a flag other than cors_error is
\* returned); the CORS-error check adds its flag and leaves isSuspicious.
C26_SuspiciousIffMarkingFlag ==
  Classified(response) =>
    (response.securityCheck.isSuspicious
       <=> FlagsOf(response.securityCheck.flags) \ {"cors_error"} # {})

\* an error event whose message names CORS: flagged, not suspicious
C26_Witness ==
  /\ Classified(response)
  /\ response.securityCheck.flags = <<"cors_error">>
  /\ ~response.securityCheck.isSuspicious

\* C27: the collector answers by the first rule that applies: OPTIONS gets
\* a success response with the CORS headers before any other check; another
\* method than POST gets 405; an Origin outside the allow-list gets 403; a
\* wrong X-API-Key gets 401; a body that fails validation gets 400.  Bad
\* origin and bad key together get 403.
C27_FirstRuleAnswers ==
  response # NoExchange =>
    LET post == request.method = "POST"
        originOk == request.origin \in ALLOWED_ORIGINS
        keyOk == request.apiKey = API_KEY
    IN /\ request.method = "OPTIONS" => (response.status = 200 /\ response.cors)
       /\ request.method \notin {"OPTIONS", "POST"} => response.status = 405
       /\ (post /\ ~originOk) => response.status = 403
       /\ (post /\ originOk /\ ~keyOk) => response.status = 401
       /\ (/\ post /\ originOk /\ keyOk
           /\ request.body # Unparsable
           /\ \A x \in validTypes : ~IsStr(Get(request.body, "eventType"), x))
          => response.status = 400

\* a POST with a bad origin and a bad key, answered 403
C27_Witness ==
  /\ response # NoExchange
  /\ request.method = "POST"
  /\ request.origin \notin ALLOWED_ORIGINS
  /\ request.apiKey # API_KEY
  /\ response.status = 403

\* C28: a POST that flushEvents() produces (body {events, batchId}, allowed
\* origin, the right key, every eventType in the whitelist) is answered with
\* 200, so the client takes the batch for delivered and does not put it back.
C28_FlushAccepted ==
  (response # NoExchange /\ request.from = "flushEvents") =>
    LET b == [events |-> Get(request.body, "events").v, awaited |-> FALSE]
        p == [eventQueue |-> <<>>, flushTimer |-> NoTimer,
              eventCounter |-> Len(b.events), timers |-> {}, inFlight |-> {b}]
    IN /\ response.status = 200
       /\ flushResume(p, b, fetchOutcomeOf(response.status)).eventQueue = <<>>

(***************************************************************************)
(* What isAllowed() writes and reports                                     *)
(***************************************************************************)
\* the last handler asked limiter this, and was answered
Asked(this) ==
  /\ handled.rateCheck # NoCall
  /\ handled.rateCheck.kind = "object"
  /\ HandledLimiter = this

\* every stored attempt of limiter this is younger than windowMs at time t
NoneStale(this, ls, t) ==
  ls[this.storageKey] \notin {Null, Garbage} =>
    \A i \in 1..Len(ls[this.storageKey].val) :
      t - ls[this.storageKey].val[i] < this.windowMs

\* C29: every isAllowed() call writes the pruned attempts back to storage,
\* also a denied one; after a denied call no stored attempt is older than
\* windowMs.
C29_EveryCallWrites ==
  \A this \in Limiters :
    Asked(this) =>
      /\ Accessed("setItem", this.storageKey)
      /\ (~handled.rateCheck.allowed /\ handled.at = now) =>
           NoneStale(this, localStorage, now)

\* C29 as amended: an allowed call writes the pruned attempts with the
\* current attempt appended; a denied call writes nothing and leaves the
\* stored attempts as they were, none of them older than windowMs.
C29_AllowedCallWrites ==
  [][\A this \in Limiters :
       IsAllowedStepX(this) =>
         LET key == this.storageKey
             pruned == validAttemptsOf(this, getAttemptsX(this, Store).val, now)
             wrote == \E i \in 1..Len(handled'.acc) :
                        handled'.acc[i].fn = "setItem" /\ handled'.acc[i].key = key
         IN IF handled'.rateCheck.allowed
            THEN /\ wrote
                 /\ storage = "ok" => localStorage'[key] = Stored(Append(pruned, now))
            ELSE /\ ~wrote
                 /\ localStorage'[key] = localStorage[key]
                 /\ NoneStale(this, localStorage', now)
    ]_vars

\* a denied call: the store holds maxAttempts attempts and was not written
C29_Witness ==
  \E this \in Limiters :
    /\ Asked(this)
    /\ ~handled.rateCheck.allowed
    /\ handled.at = now
    /\ ~Accessed("setItem", this.storageKey)
    /\ Len(getAttemptsX(this, Store).val) = this.maxAttempts

\* C30: an allowed isAllowed() call reports remaining = maxAttempts - count,
\* count being the attempts of the window found before the current one is
\* appended (the first call on an empty store reports maxAttempts).
C30_RemainingBeforeAppend ==
  [][\A this \in Limiters :
       (IsAllowedStepX(this) /\ handled'.rateCheck.allowed) =>
         handled'.rateCheck.remainingAttempts =
           this.maxAttempts
             - Len(validAttemptsOf(this, getAttemptsX(this, Store).val, now))
    ]_vars

\* C30 as amended: an allowed call reports remaining = maxAttempts - count
\* - 1: the attempts left after the current one, which is counted (the first
\* call on an empty store reports maxAttempts - 1).
C30_RemainingAfterAppend ==
  [][\A this \in Limiters :
       (IsAllowedStepX(this) /\ handled'.rateCheck.allowed) =>
         handled'.rateCheck.remainingAttempts =
           this.maxAttempts
             - Len(validAttemptsOf(this, getAttemptsX(this, Store).val, now)) - 1
    ]_vars

\* the first call on an empty store, answered maxAttempts - 1
C30_Witness ==
  \E this \in Limiters :
    /\ Asked(this)
    /\ handled.rateCheck.allowed
    /\ handled.rateCheck.remainingAttempts = this.maxAttempts - 1
    /\ localStorage[this.storageKey] = Stored(<<handled.at>>)

(***************************************************************************)
(* The violation ledger across a lockout                                   *)
(***************************************************************************)
\* the stored violation ledger, or Null / Garbage
StoredLedger == localStorage[violationsKey]

\* the last handler's recordViolation() installed a lockout at this instant
LockoutInstalled ==
  /\ handled.shouldLockout = Bool(TRUE)
  /\ handled.at = now
  /\ getLockoutX(Store).val # Null
  /\ getLockoutX(Store).val.timestamp = now

\* this step is a handler whose recordViolation() installs a lockout
InstallsLockout ==
  /\ handled'.shouldLockout = Bool(TRUE)
  /\ now' = now /\ storage' = storage
  /\ (OpenOverlayX \/ DocumentClickX)

\* this step removes the stored ledger
LedgerRemoved ==
  /\ StoredLedger # Null
  /\ localStorage'[violationsKey] = Null

\* this step is a handler whose isLockedOut() finds the lockout expired
ExpiryDetected ==
  /\ now' = now
  /\ handled'.op \in {"openOverlay", "showRateLimitStatus"}
  /\ getLockoutX(Store).val # Null
  /\ now >= getLockoutX(Store).val.until
  /\ (OpenOverlayX \/ ShowRateLimitStatusX)

\* this step is a confirmed resetRateLimits()
AdministrativeReset ==
  /\ now' = now
  /\ handled'.op = "resetRateLimits"
  /\ \E i \in 1..Len(handled'.acc) :
       handled'.acc[i] = Access("removeItem", violationsKey, FALSE)
  /\ ResetRateLimitsX

\* C31: the step that installs a lockout leaves the violation ledger
\* stored: it holds every violation of the window that was stored before,
\* in order, and the triggering violation last; the ledger is removed from
\* storage only by a handler whose isLockedOut() finds the lockout expired
\* or by a confirmed administrative reset.
C31_LedgerKeptOnLockout ==
  [][/\ InstallsLockout =>
          LET before == recentViolationsOf(getViolationsX(Store).val, now)
              after == localStorage'[violationsKey]
          IN /\ after \notin {Null, Garbage}
             /\ Len(after.val) = Len(before) + 1
             /\ Len(after.val) >= maxFailedAttempts
             /\ SubSeq(after.val, 1, Len(before)) = before
             /\ after.val[Len(after.val)].timestamp = now
             /\ localStorage'[lockoutKey] \notin {Null, Garbage}
             /\ localStorage'[lockoutKey].val.timestamp = now
     /\ LedgerRemoved => (ExpiryDetected \/ AdministrativeReset)
    ]_vars

\* a lockout has just been installed and the stored ledger holds the
\* maxFailedAttempts violations that led to it
C31_Witness ==
  /\ LockoutInstalled
  /\ StoredLedger \notin {Null, Garbage}
  /\ Len(StoredLedger.val) = maxFailedAttempts
  /\ StoredLedger.val[maxFailedAttempts].timestamp = now

(***************************************************************************)
(* Event numbers                                                           *)
(***************************************************************************)
\* every event created so far, wherever it is now
AllEvents == Elems(eventQueue) \cup InFlightEvents \cup delivered \cup dropped

\* the event the last step created, when that step was a call of
\* logSecurityEventToServer(): the last one of the batch it started or of
\* the queue
Created ==
  IF logResult.batch # <<>> THEN logResult.batch[Len(logResult.batch)]
  ELSE eventQueue[Len(eventQueue)]

\* C32: the events of a session carry the numbers 1, 2, 3, ... in the order
\* of their creation: the events created so far are numbered 1..eventCounter
\* with no number used twice, a newly created event has the number
\* eventCounter, greater than every earlier one, and an event that was put
\* back into the queue is there under the number it was created with.
C32_NumbersInEnqueueOrder ==
  /\ AllEvents = 1..eventCounter
  /\ \A e \in AllEvents :
       Occurrences(eventQueue, e)
         + Cardinality({b \in inFlight : e \in Elems(b.events)}) <= 1
  /\ logResult.op = "enqueue" =>
       /\ Created = eventCounter
       /\ \A e \in AllEvents \ {Created} : e < Created
  /\ requeued \subseteq Elems(eventQueue)

\* a third event has just been created while earlier events, put back
\* after a failed send, wait in the queue
C32_Witness ==
  /\ logResult.op = "enqueue"
  /\ eventCounter >= 3
  /\ Created = eventCounter
  /\ requeued # {}
  /\ \A e \in requeued : e < Created

(***************************************************************************)
(* The stages of the overlay handler                                       *)
(***************************************************************************)
\* this step is a call of the gated openOverlay()
OpenOverlayStepX ==
  /\ handled'.op = "openOverlay"
  /\ now' = now /\ storage' = storage
  /\ OpenOverlayX

\* C33: the gated openOverlay() looks at the lockout first, then asks the
\* overlay limiter, then runs the original action: its first storage access
\* reads the lockout record; when isLockedOut() answers locked the handler
\* returns with no call of the limiter or of recordViolation(), with the
\* storage (attempts and violation ledger) as it was, and without the
\* original action; the original action runs only after the lockout check
\* answered not locked and the limiter answered allowed.
C33_LockedReturnsFirst ==
  [][OpenOverlayStepX =>
       /\ handled'.acc[1].fn = "getItem" /\ handled'.acc[1].key = lockoutKey
       /\ LockedField(handled'.lockout) =>
            /\ handled'.rateCheck = NoCall
            /\ handled'.shouldLockout = NoCall
            /\ ~handled'.proceeded
            /\ Len(handled'.acc) = 1
            /\ localStorage' = localStorage
       /\ handled'.proceeded =>
            /\ ~LockedField(handled'.lockout)
            /\ handled'.rateCheck # NoCall
            /\ handled'.rateCheck.allowed
    ]_vars

\* openOverlay() was called during a lockout, with the overlay limiter
\* able to answer (fewer than maxAttempts attempts stored): it was not asked
C33_Witness ==
  /\ handled.op = "openOverlay"
  /\ handled.at = now
  /\ LockedField(handled.lockout)
  /\ handled.rateCheck = NoCall
  /\ ~handled.proceeded
  /\ Len(getAttemptsX(overlayLimiter, Store).val) < maxOverlayOpens

(***************************************************************************)
(* The size of the stored attempt sequence                                 *)
(***************************************************************************)
\* the attempts stored for limiter this in ls number at most maxAttempts
WithinCap(this, ls) ==
  ls[this.storageKey] \notin {Null, Garbage} =>
    Len(ls[this.storageKey].val) <= this.maxAttempts

\* C34: whatever handlers and resets ran before, the attempt sequence
\* stored for a limiter has at most maxAttempts entries, before and after
\* every step; a denied isAllowed() call leaves the stored sequence exactly
\* as it was, so the wait it reports, counted from the oldest stored
\* attempt, is not lengthened by denied calls.
C34_StoredAttemptsCapped ==
  [][\A this \in Limiters :
       /\ WithinCap(this, localStorage)
       /\ WithinCap(this, localStorage')
       /\ (IsAllowedStepX(this) /\ ~handled'.rateCheck.allowed) =>
            LET stored == getAttemptsX(this, Store).val
            IN /\ localStorage'[this.storageKey] = localStorage[this.storageKey]
               /\ Len(stored) = this.maxAttempts
               /\ handled'.rateCheck.timeToWait =
                    Ceil(this.windowMs - (now - MinOf(stored)), MsPerSecond)
    ]_vars

\* a denied call on working storage: maxAttempts attempts are stored, as
\* before the call, and the caller was told to wait
C34_Witness ==
  \E this \in Limiters :
    /\ storage = "ok"
    /\ Asked(this)
    /\ ~handled.rateCheck.allowed
    /\ handled.at = now
    /\ handled.rateCheck.timeToWait > 0
    /\ localStorage[this.storageKey] \notin {Null, Garbage}
    /\ Len(localStorage[this.storageKey].val) = this.maxAttempts

(***************************************************************************)
(* The timer handle and the queue                                          *)
(***************************************************************************)
\* the timer the handle names is pending
TimerPending == \E x \in timers : x.id = flushTimer

\* a set handle names a pending timer, and events wait for it
HandleIsLive == flushTimer # NoTimer => (TimerPending /\ Len(eventQueue) > 0)

\* C35: whenever events wait in the queue and no send is in flight, a flush
\* timer is pending; and whenever the timer handle is set, the timer it
\* names is pending and the queue is not empty.
C35_QueuedMeansScheduled ==
  /\ (page = "loaded" /\ Len(eventQueue) > 0 /\ inFlight = {}) =>
       (flushTimer # NoTimer /\ TimerPending)
  /\ HandleIsLive

(***************************************************************************)
(* Repeated sends of an event                                              *)
(***************************************************************************)
\* C36: every batch flushEvents() sends holds at least one event that was in
\* no earlier batch; a batch is larger than the batch any of its events was
\* last sent in; and no event is sent by flushEvents() more than
\* requeueCeiling times, however many sends fail.
C36_BatchesGrow ==
  [][inFlight' \ inFlight # {} =>
       \A b \in inFlight' \ inFlight :
         /\ \E e \in Elems(b.events) : sends[e].n = 0
         /\ \A e \in Elems(b.events) :
              /\ Len(b.events) > sends[e].size
              /\ sends'[e].n = sends[e].n + 1
              /\ sends'[e].n <= requeueCeiling
    ]_vars

\* an event is sent for the requeueCeiling-th time, in a batch of
\* requeueCeiling events, after requeueCeiling - 1 failed sends, and this
\* last batch fails too: it is dropped
C36_Witness ==
  \E e \in dropped :
    /\ sends[e].n = requeueCeiling
    /\ sends[e].size >= requeueCeiling
    /\ logResult.op = "fetch"
    /\ logResult.outcome \in Failures
    /\ e \in Elems(logResult.batch)
====
